---- MODULE Spec2Model ----
(***************************************************************************)
(* A model of src/App.tsx: the task list of the to-do screen, its          *)
(* handlers (addTask, toggleCompletion, editTask, updateTask, deleteTask), *)
(* the asynchronous load from and saves to AsyncStorage, and the fade-out  *)
(* whose completion callback performs the removal.                         *)
(*                                                                         *)
(* A string is a sequence of one-character strings.  A handler runs        *)
(* atomically on the state of the latest render; an asynchronous           *)
(* continuation (the load after its await, a fade-out's completion         *)
(* callback) runs later, on what its closure captured when it was created. *)
(***************************************************************************)
EXTENDS Integers, Sequences, FiniteSets

VARIABLES
  task,         \* useState<string>(''): the text input
  tasks,        \* useState<Task[]>([]): the in-memory collection
  editingTask,  \* useState<string | null>(null): the active edit target
  animations,   \* useState<Map<string, Animated.Value>>: the keys of the map
  storage,      \* the AsyncStorage entry under the key 'tasks'
  pending,      \* AsyncStorage.setItem calls issued and not yet completed
  fades,        \* fade-outs started and not yet ended, with their closures
  loadPc,       \* position of loadTasks: "start", "read" (at its await), "done"
  loadBuf,      \* the value AsyncStorage.getItem resolved with
  now,          \* the value Date.now() returns
  hist,         \* history: what has been applied so far
  lastOp,       \* history: the last handler call or continuation on the store
                \* (typing, clock advances, getItem and setItem completions
                \* leave it as it is)
  srcOf,        \* history: the collections behind the serialized values
  steps,        \* history: the number of events so far
  order         \* history: the pairs <<a, b>> of ids seen with a before b

vars == <<task, tasks, editingTask, animations, storage, pending, fades,
          loadPc, loadBuf, now, hist, lastOp, srcOf, steps, order>>

(* ------------------------------ bounds --------------------------------- *)

\* advances of the clock in one run
MaxTicks == 1
\* events (handler calls, continuations, completions, clock advances) in one run
MaxSteps == 7

(* ------------------------------ strings -------------------------------- *)

\* what the user can type into the text input
TypedTexts == { <<>>, <<" ">>, <<"x">>, <<" ", "y">> }

IsSpace(c) == c = " "

RECURSIVE TrimStart(_)
TrimStart(s) ==
  IF Len(s) = 0 THEN <<>>
  ELSE IF IsSpace(Head(s)) THEN TrimStart(Tail(s)) ELSE s

RECURSIVE TrimEnd(_)
TrimEnd(s) ==
  IF Len(s) = 0 THEN <<>>
  ELSE IF IsSpace(s[Len(s)]) THEN TrimEnd(SubSeq(s, 1, Len(s) - 1)) ELSE s

\* String.prototype.trim
Trim(s) == TrimEnd(TrimStart(s))

\* a string in a condition: the empty string is falsy
Truthy(s) == Len(s) > 0

\* null, in a condition as falsy as the empty string
NoTask == <<>>

\* Number.prototype.toString: the decimal digits
RECURSIVE ToString(_)
ToString(n) ==
  IF n < 10 THEN <<n>> ELSE ToString(n \div 10) \o <<n % 10>>

(* ----------------------------- collections ----------------------------- *)

\* type Task
Task(i, t, c) == [id |-> i, text |-> t, completed |-> c]

\* the ids of a collection, as a set
TaskIds(c) == { c[k].id : k \in DOMAIN c }

\* tasks.filter((item) => item.id !== taskId)
RECURSIVE WithoutId(_, _)
WithoutId(c, taskId) ==
  IF Len(c) = 0 THEN <<>>
  ELSE IF Head(c).id # taskId THEN <<Head(c)>> \o WithoutId(Tail(c), taskId)
       ELSE WithoutId(Tail(c), taskId)

(* ---------------------------- serialization ---------------------------- *)

\* JSON.stringify of one Task: its members in the order of the object literal
StringifyTask(t) ==
  << <<"id", t.id>>, <<"text", t.text>>, <<"completed", t.completed>> >>

\* JSON.stringify(tasks): the brackets around the serialized tasks
Stringify(c) == <<"[">> \o [k \in DOMAIN c |-> StringifyTask(c[k])] \o <<"]">>

\* the value of member key of a serialized object
RECURSIVE Member(_, _)
Member(o, key) ==
  IF Head(o)[1] = key THEN Head(o)[2] ELSE Member(Tail(o), key)

\* a parse that loses the completed member
ParseTaskUncompleted(o) == Task(Member(o, "id"), Member(o, "text"), FALSE)

\* JSON.parse of one serialized Task
ParseTask(o) ==
  Task(Member(o, "id"), Member(o, "text"), Member(o, "completed"))

\* JSON.parse(savedTasks): the tasks between the brackets
Parse(s) == [k \in 1 .. Len(s) - 2 |-> ParseTask(s[k + 1])]

\* AsyncStorage.getItem: null when the key was never written
Absent == [present |-> FALSE, value |-> <<>>]
Stored(s) == [present |-> TRUE, value |-> s]

(* ------------------------------- history ------------------------------- *)

\* the last operation on the store: its name, its task id, the in-memory
\* collection as it stood right before it, and whether the operation before
\* it was the same one on the same id
Op(name, id) ==
  [op |-> name, id |-> id, before |-> tasks,
   again |-> lastOp.op = name /\ lastOp.id = id]

\* a setItem call in flight: the serialized value, and the collection it is of
Write(c) == [data |-> Stringify(c), of |-> c]

\* the sequence s without its element at index i
RemoveAt(s, i) == SubSeq(s, 1, i - 1) \o SubSeq(s, i + 1, Len(s))

(* -------------------------------- start -------------------------------- *)

\* the times at which a previous session created the tasks it left in storage
StoredTimes == { 1, 2 }

\* the collections a previous session can have left in storage, its tasks
\* created from non-blank inputs
StoredCollections ==
  { <<>>,
    << Task(ToString(1), <<"x">>, TRUE) >>,
    << Task(ToString(1), <<" ", "y">>, FALSE), Task(ToString(2), <<"x">>, TRUE) >> }

\* the first value of Date.now() in this run: later than every stored task
StartTime == 1 + CHOOSE n \in StoredTimes : \A m \in StoredTimes : m <= n

Init ==
  /\ task = <<>>
  /\ tasks = <<>>
  /\ editingTask = NoTask
  /\ animations = {}
  /\ \E c \in StoredCollections :
       /\ srcOf = [storage |-> c, loadBuf |-> <<>>, failed |-> <<>>]
       /\ \/ storage = Absent /\ c = <<>>
          \/ storage = Stored(Stringify(c))
  /\ pending = <<>>
  /\ fades = <<>>
  /\ loadPc = "start"
  /\ loadBuf = Absent
  /\ now = StartTime
  /\ hist = [adds |-> 0, mutated |-> FALSE, loads |-> 0, lateLoad |-> FALSE,
             removed |-> {}, failures |-> 0]
  /\ steps = 0
  /\ order = {}
  /\ lastOp = [op |-> "init", id |-> NoTask, before |-> <<>>, again |-> FALSE]

(* ------------------------------- storage ------------------------------- *)

\* a save of the collection of the render instead of the updated one
SaveTasksOfRender(c) == pending' = Append(pending, Write(tasks))

\* saveTasks: JSON.stringify runs in the call, setItem completes later
SaveTasks(c) == pending' = Append(pending, Write(c))

\* a setItem call completes: the entry is overwritten
WriteDone(i) ==
  /\ i \in DOMAIN pending
  /\ storage' = Stored(pending[i].data)
  /\ pending' = RemoveAt(pending, i)
  /\ srcOf' = [srcOf EXCEPT !.storage = pending[i].of]
  /\ UNCHANGED <<task, tasks, editingTask, animations, fades, loadPc, loadBuf,
                 now, hist, lastOp>>

\* a failed setItem call that is issued again
WriteFailRetried(i) ==
  /\ i \in DOMAIN pending
  /\ pending' = Append(RemoveAt(pending, i), pending[i])
  /\ srcOf' = [srcOf EXCEPT !.failed = pending[i].of]
  /\ hist' = [hist EXCEPT !.failures = @ + 1]
  /\ UNCHANGED <<task, tasks, editingTask, animations, storage, fades, loadPc,
                 loadBuf, now, lastOp>>

\* a setItem call fails: the promise of saveTasks is rejected, and no caller
\* awaits or catches it
WriteFail(i) ==
  /\ i \in DOMAIN pending
  /\ pending' = RemoveAt(pending, i)
  /\ srcOf' = [srcOf EXCEPT !.failed = pending[i].of]
  /\ hist' = [hist EXCEPT !.failures = @ + 1]
  /\ UNCHANGED <<task, tasks, editingTask, animations, storage, fades, loadPc,
                 loadBuf, now, lastOp>>

\* loadTasks up to its await: getItem resolves with the entry
LoadRead ==
  /\ loadPc = "start"
  /\ loadPc' = "read"
  /\ loadBuf' = storage
  /\ srcOf' = [srcOf EXCEPT !.loadBuf = srcOf.storage]
  /\ UNCHANGED <<task, tasks, editingTask, animations, storage, pending, fades,
                 now, hist, lastOp>>

\* loadTasks after its await
LoadResume ==
  /\ loadPc = "read"
  /\ loadPc' = "done"
  /\ IF loadBuf.present /\ Truthy(loadBuf.value)
     THEN LET parsedTasks == Parse(loadBuf.value)
          IN  /\ tasks' = parsedTasks
              /\ animations' = TaskIds(parsedTasks)
              /\ hist' = [hist EXCEPT
                            !.loads = @ + 1,
                            !.lateLoad = hist.adds > 0 \/ hist.mutated
                                           \/ Len(fades) > 0]
              /\ lastOp' = Op("load", NoTask)
     ELSE /\ UNCHANGED <<tasks, animations, hist>>
          /\ lastOp' = Op("loadNothing", NoTask)
  /\ UNCHANGED <<task, editingTask, storage, pending, fades, loadBuf, now, srcOf>>

(* ------------------------------ handlers ------------------------------- *)

\* onChangeText={(text) => setTask(text)}
SetTask(text) ==
  /\ text # task
  /\ task' = text
  /\ UNCHANGED <<tasks, editingTask, animations, storage, pending, fades,
                 loadPc, loadBuf, now, hist, lastOp, srcOf>>

\* time passes: Date.now() returns a later value
Tick ==
  /\ now < StartTime + MaxTicks
  /\ now' = now + 1
  /\ UNCHANGED <<task, tasks, editingTask, animations, storage, pending, fades,
                 loadPc, loadBuf, hist, lastOp, srcOf>>

\* the object literal of addTask
NewTask(text, time) == Task(ToString(time), text, FALSE)

\* addTask without the trim
AddAcceptsUntrimmed(text) == Truthy(text)

\* the condition of addTask
AddAccepts(text) == Truthy(Trim(text))

\* addTask that puts the new task first
AddedTasksFirst(c, newTask) == <<newTask>> \o c

\* [...tasks, newTask]
AddedTasks(c, newTask) == Append(c, newTask)

AddTask ==
  IF AddAccepts(task)
  THEN LET newTask == NewTask(task, now)
           updatedTasks == AddedTasks(tasks, newTask)
       IN  /\ tasks' = updatedTasks
           /\ SaveTasks(updatedTasks)
           /\ task' = <<>>
           /\ animations' = animations \cup {newTask.id}
           /\ hist' = [hist EXCEPT !.adds = @ + 1, !.removed = @ \ {newTask.id}]
           /\ lastOp' = Op("add", newTask.id)
           /\ UNCHANGED <<editingTask, storage, fades, loadPc, loadBuf, now, srcOf>>
  ELSE /\ lastOp' = Op("addRejected", NoTask)
       /\ UNCHANGED <<task, tasks, editingTask, animations, storage, pending,
                      fades, loadPc, loadBuf, now, hist, srcOf>>

\* toggleCompletion that sets the flag instead of flipping it
ToggledTasksSet(c, taskId) ==
  [k \in DOMAIN c |->
     IF c[k].id = taskId THEN [c[k] EXCEPT !.completed = TRUE] ELSE c[k]]

\* the map of toggleCompletion
ToggledTasks(c, taskId) ==
  [k \in DOMAIN c |->
     IF c[k].id = taskId
     THEN [c[k] EXCEPT !.completed = ~c[k].completed]
     ELSE c[k]]

ToggleCompletion(taskId) ==
  LET updatedTasks == ToggledTasks(tasks, taskId)
  IN  /\ tasks' = updatedTasks
      /\ SaveTasks(updatedTasks)
      /\ hist' = [hist EXCEPT !.mutated = TRUE]
      /\ lastOp' = Op("toggle", taskId)
      /\ UNCHANGED <<task, editingTask, animations, storage, fades, loadPc,
                     loadBuf, now, srcOf>>

\* tasks.find((item) => item.id === taskId): the first match, if any
Find(c, taskId) ==
  LET hits == { k \in DOMAIN c : c[k].id = taskId }
  IN  IF hits = {} THEN <<>>
      ELSE << c[CHOOSE k \in hits : \A j \in hits : k <= j] >>

EditTask(taskId) ==
  LET taskToEdit == Find(tasks, taskId)
  IN  IF Len(taskToEdit) > 0
      THEN /\ task' = taskToEdit[1].text
           /\ editingTask' = taskId
           /\ lastOp' = Op("edit", taskId)
           /\ UNCHANGED <<tasks, animations, storage, pending, fades, loadPc,
                          loadBuf, now, hist, srcOf>>
      ELSE /\ lastOp' = Op("editNotFound", taskId)
           /\ UNCHANGED <<task, tasks, editingTask, animations, storage, pending,
                          fades, loadPc, loadBuf, now, hist, srcOf>>

\* updateTask without the trim
UpdateAcceptsUntrimmed(text, target) == Truthy(text) /\ Truthy(target)

\* the condition of updateTask
UpdateAccepts(text, target) == Truthy(Trim(text)) /\ Truthy(target)

\* updateTask that builds the task anew instead of spreading the old one
UpdatedTasksRebuilt(c, target, text) ==
  [k \in DOMAIN c |->
     IF c[k].id = target THEN Task(c[k].id, text, FALSE) ELSE c[k]]

\* the map of updateTask
UpdatedTasks(c, target, text) ==
  [k \in DOMAIN c |->
     IF c[k].id = target THEN [c[k] EXCEPT !.text = text] ELSE c[k]]

UpdateTask ==
  IF UpdateAccepts(task, editingTask)
  THEN LET updatedTasks == UpdatedTasks(tasks, editingTask, task)
       IN  /\ tasks' = updatedTasks
           /\ SaveTasks(updatedTasks)
           /\ task' = <<>>
           /\ editingTask' = NoTask
           /\ hist' = [hist EXCEPT !.mutated = TRUE]
           /\ lastOp' = Op("update", editingTask)
           /\ UNCHANGED <<animations, storage, fades, loadPc, loadBuf, now, srcOf>>
  ELSE /\ lastOp' = Op("updateRejected", NoTask)
       /\ UNCHANGED <<task, tasks, editingTask, animations, storage, pending,
                      fades, loadPc, loadBuf, now, hist, srcOf>>

\* onPress={editingTask ? updateTask : addTask}
AddPress == ~Truthy(editingTask) /\ AddTask
UpdatePress == Truthy(editingTask) /\ UpdateTask

\* the completion callback of a fade-out: the variables its closure captured
Fade(taskId, c) == [taskId |-> taskId, tasks |-> c]

\* deleteTask that also leaves the edit of the task it deletes
DeleteTaskLeavesEdit(taskId) ==
  /\ taskId \in animations
  /\ fades' = Append(fades, Fade(taskId, tasks))
  /\ editingTask' = IF editingTask = taskId THEN NoTask ELSE editingTask
  /\ lastOp' = Op("delete", taskId)
  /\ UNCHANGED <<task, tasks, animations, storage, pending, loadPc, loadBuf,
                 now, hist, srcOf>>

\* deleteTask: starts the fade-out when the task has an animation handle
DeleteTask(taskId) ==
  IF taskId \in animations
  THEN /\ fades' = Append(fades, Fade(taskId, tasks))
       /\ lastOp' = Op("delete", taskId)
       /\ UNCHANGED <<task, tasks, editingTask, animations, storage, pending,
                      loadPc, loadBuf, now, hist, srcOf>>
  ELSE /\ lastOp' = Op("deleteNoHandle", taskId)
       /\ UNCHANGED <<task, tasks, editingTask, animations, storage, pending,
                      fades, loadPc, loadBuf, now, hist, srcOf>>

\* the callback given to start(): runs when the 500 ms fade-out ends, on the
\* tasks of the render in which deleteTask was called
FadeEnd ==
  /\ Len(fades) > 0
  /\ LET f == Head(fades)
         updatedTasks == WithoutId(f.tasks, f.taskId)
     IN  /\ tasks' = updatedTasks
         /\ SaveTasks(updatedTasks)
         /\ animations' = animations \ {f.taskId}
         /\ fades' = Tail(fades)
         /\ hist' = [hist EXCEPT !.mutated = TRUE, !.removed = @ \cup {f.taskId}]
         /\ lastOp' = Op("fadeEnd", f.taskId)
  /\ UNCHANGED <<task, editingTask, storage, loadPc, loadBuf, now, srcOf>>

(* ---------------------------- specification ---------------------------- *)

\* the ids of the rendered items: the FlatList renders tasks
Rendered == TaskIds(tasks)

\* the pairs <<a, b>> of different ids with a task of id a before one of id b
BeforePairs(c) ==
  { <<a, b>> \in TaskIds(c) \X TaskIds(c) :
      a # b /\ \E i, j \in DOMAIN c : i < j /\ c[i].id = a /\ c[j].id = b }

\* every event counts towards the length of the run, and what it leaves in
\* the collection is recorded
Count ==
  /\ steps < MaxSteps
  /\ steps' = steps + 1
  /\ order' = order \cup BeforePairs(tasks')

Next ==
  \/ \E text \in TypedTexts : SetTask(text) /\ Count
  \/ Tick /\ Count
  \/ AddPress /\ Count
  \/ UpdatePress /\ Count
  \/ \E taskId \in Rendered : ToggleCompletion(taskId) /\ Count
  \/ \E taskId \in Rendered : EditTask(taskId) /\ Count
  \/ \E taskId \in Rendered : DeleteTask(taskId) /\ Count
  \/ FadeEnd /\ Count
  \/ LoadRead /\ Count
  \/ LoadResume /\ Count
  \/ \E i \in DOMAIN pending : WriteDone(i) /\ Count

Spec == Init /\ [][Next]_vars

\* the same with a storage whose writes can fail
NextFail ==
  \/ Next
  \/ \E i \in DOMAIN pending : WriteFail(i) /\ Count

SpecFail == Init /\ [][NextFail]_vars

(* ----------------------------- properties ------------------------------ *)

\* the ids of the tasks of collection c are pairwise distinct
DistinctIds(c) ==
  \A i, j \in DOMAIN c : i # j => c[i].id # c[j].id

\* the collection in storage: empty when nothing was ever written
Persisted == IF storage.present THEN Parse(storage.value) ELSE <<>>

\* every id Date.now() can give in a run, and those of the stored tasks
AllIds == { ToString(n) : n \in 1 .. StartTime + MaxTicks }

\* C1: in every reachable state the ids of the in-memory collection are
\* pairwise distinct, also after two adds that read the same time.
C1_IdsUnique == DistinctIds(tasks)

\* C2: as long as only adds were applied to the initially empty collection,
\* its length is the number of accepted adds and its ids are pairwise
\* distinct.
C2_AddsOnly ==
  (~hist.mutated /\ hist.loads = 0) =>
    (Len(tasks) = hist.adds /\ DistinctIds(tasks))

\* C3: when the removal of a delete takes effect, the collection is the one
\* right before the removal without the deleted task, whatever adds, toggles,
\* commitEdits and deletes happened between the request and the end of the
\* fade-out (runs in which the load assigned nothing after user activity).
C3_DeleteRemovesExactly ==
  (lastOp.op = "fadeEnd" /\ ~hist.lateLoad) =>
    tasks = WithoutId(lastOp.before, lastOp.id)

\* C4: once the load is done, every write has completed and no fade-out is
\* running, the persisted collection equals the in-memory collection.
C4_QuiescentConsistent ==
  (loadPc = "done" /\ Len(pending) = 0 /\ Len(fades) = 0) => Persisted = tasks

\* C5: the loaded collection is assigned at most once, and never after a user
\* mutation (add, toggle, commitEdit, delete) has been applied.
C5_LoadBeforeMutations ==
  /\ hist.loads <= 1
  /\ lastOp.op = "load" => (hist.adds = 0 /\ ~hist.mutated)

\* C6: an add whose text is empty after trimming changes neither the
\* collection nor the writes in flight nor the stored value.
C6_BlankAddIsNoOp ==
  [][(AddPress /\ ~Truthy(Trim(task))) =>
       (tasks' = tasks /\ pending' = pending /\ storage' = storage)]_vars

\* C6: a whitespace-only add was rejected on a non-empty collection.
C6_Witness ==
  lastOp.op = "addRejected" /\ task = <<" ">> /\ Len(tasks) > 0

\* C7: a toggle right after a toggle of the same id gives back the collection
\* as it was before the first one; toggling an id that is not in the
\* collection gives the collection itself.
C7_ToggleTwiceRestores ==
  [][/\ \A taskId \in Rendered :
          (ToggleCompletion(taskId) /\ lastOp.op = "toggle" /\ lastOp.id = taskId)
            => tasks' = lastOp.before
     /\ \A taskId \in AllIds \ Rendered : ToggledTasks(tasks, taskId) = tasks]_vars

\* C7: a task that was completed has been toggled twice in succession, next
\* to another task.
C7_Witness ==
  /\ lastOp.op = "toggle" /\ lastOp.again
  /\ Len(tasks) >= 2
  /\ \E k \in DOMAIN tasks : tasks[k].id = lastOp.id /\ tasks[k].completed

\* C8: the removal of a second delete of an id whose removal has already taken
\* effect leaves the collection as it is (runs in which the load assigned
\* nothing after user activity).
C8_SecondDeleteIsNoOp ==
  [][(FadeEnd /\ Head(fades).taskId \in hist.removed /\ ~hist.lateLoad)
       => tasks' = tasks]_vars

\* C9: a load that finds a written value yields the collection that was
\* written: same tasks, same order, same ids, texts and completed values.
C9_LoadRoundTrip ==
  (lastOp.op \in {"load", "loadNothing"} /\ loadBuf.present) =>
    tasks = srcOf.loadBuf

\* C9: a collection with a completed task and a task added in this run was
\* written and then loaded.
C9_Witness ==
  /\ lastOp.op = "load"
  /\ \E k \in DOMAIN tasks : tasks[k].completed
  /\ \E k \in DOMAIN tasks : tasks[k].id = ToString(StartTime)

\* C10: an accepted commitEdit keeps the length, every id, every completed
\* value and every position, gives the tasks with the edit target's id the
\* pending text and leaves the other texts; afterwards the input is empty and
\* there is no edit target.
C10_UpdateFrame ==
  [][(UpdatePress /\ UpdateAccepts(task, editingTask)) =>
       /\ Len(tasks') = Len(tasks)
       /\ \A k \in DOMAIN tasks :
            /\ tasks'[k].id = tasks[k].id
            /\ tasks'[k].completed = tasks[k].completed
            /\ tasks'[k].text =
                 IF tasks[k].id = editingTask THEN task ELSE tasks[k].text
       /\ task' = <<>>
       /\ editingTask' = NoTask]_vars

\* C10: a commitEdit changed the text of a completed task next to another
\* task.
C10_Witness ==
  /\ lastOp.op = "update"
  /\ Len(tasks) >= 2
  /\ \E k \in DOMAIN tasks :
       /\ tasks[k].id = lastOp.id
       /\ tasks[k].completed
       /\ tasks[k].text # lastOp.before[k].text

\* no task of collection c has a text that is empty after trimming
NonBlank(c) == \A k \in DOMAIN c : Truthy(Trim(c[k].text))

\* C11: no task of the in-memory collection, of a write in flight or of the
\* stored value has a blank text (the stored collections of the start have
\* none).
C11_TextsNonBlank ==
  /\ NonBlank(tasks)
  /\ \A i \in DOMAIN pending : NonBlank(Parse(pending[i].data))
  /\ NonBlank(Persisted)

\* C11: a commitEdit put a text with a leading space into the collection and
\* into a write in flight.
C11_Witness ==
  /\ lastOp.op = "update"
  /\ \E k \in DOMAIN tasks : tasks[k].text = <<" ", "y">>
  /\ \E i \in DOMAIN pending :
       \E k \in DOMAIN pending[i].data \ {1, Len(pending[i].data)} :
         Member(pending[i].data[k], "text") = <<" ", "y">>
  /\ \E k \in DOMAIN lastOp.before : lastOp.before[k].text = <<"x">>
  /\ \A k \in DOMAIN lastOp.before : lastOp.before[k].text # <<" ", "y">>

\* C12: an accepted add puts the new task after all the others, and two ids
\* once seen in one order in the collection are never seen in the other.
C12_InsertionOrder ==
  [][/\ (AddPress /\ AddAccepts(task)) =>
          /\ Len(tasks') = Len(tasks) + 1
          /\ SubSeq(tasks', 1, Len(tasks)) = tasks
          /\ tasks'[Len(tasks')].text = task
     /\ \A p \in order' : <<p[2], p[1]>> \notin order']_vars

\* C12: after a toggle, commitEdit or removal, an add put a third task after
\* two tasks of other ids.
C12_Witness ==
  /\ lastOp.op = "add"
  /\ Len(tasks) >= 3
  /\ hist.mutated
  /\ \A k \in DOMAIN tasks : k < Len(tasks) => tasks[k].id # tasks[Len(tasks)].id

\* C13: the edit target changes only by editTask of a rendered task, which
\* makes that task the target and its text the input, or by an accepted
\* updateTask, which leaves none; editTask changes neither the collection
\* nor the writes in flight nor the stored value.
C13_EditFlow ==
  [][/\ editingTask' # editingTask =>
          \/ \E taskId \in Rendered :
               /\ EditTask(taskId)
               /\ editingTask' = taskId
               /\ \E k \in DOMAIN tasks :
                    tasks[k].id = taskId /\ task' = tasks[k].text
          \/ /\ UpdatePress
             /\ UpdateAccepts(task, editingTask)
             /\ editingTask' = NoTask
     /\ \A taskId \in Rendered :
          EditTask(taskId) =>
            (tasks' = tasks /\ pending' = pending /\ storage' = storage)
     /\ \A taskId \in AllIds \ Rendered : Len(Find(tasks, taskId)) = 0]_vars

\* C13: the removal of the task being edited took effect and the edit target
\* is still that task.
C13_Witness ==
  /\ lastOp.op = "fadeEnd"
  /\ Truthy(editingTask)
  /\ lastOp.id = editingTask

\* C14: a commitEdit whose text is empty after trimming changes neither the
\* collection nor the stored value nor the writes in flight nor the input nor
\* the edit target; without an edit target no text is accepted.
C14_BlankUpdateIsNoOp ==
  [][/\ (UpdatePress /\ ~Truthy(Trim(task))) =>
          /\ tasks' = tasks
          /\ storage' = storage
          /\ pending' = pending
          /\ task' = task
          /\ editingTask' = editingTask
     /\ \A text \in TypedTexts : ~UpdateAccepts(text, NoTask)]_vars

\* C14: a whitespace-only commitEdit was rejected while a task was edited.
C14_Witness ==
  /\ lastOp.op = "updateRejected"
  /\ task = <<" ">>
  /\ editingTask \in TaskIds(tasks)

\* a step that applies a mutation: an accepted add, a toggle, an accepted
\* commitEdit, the removal of a delete
Mutation ==
  \/ AddPress /\ AddAccepts(task)
  \/ \E taskId \in Rendered : ToggleCompletion(taskId)
  \/ UpdatePress /\ UpdateAccepts(task, editingTask)
  \/ FadeEnd

\* C15: a step that applies a mutation issues one write, after those in
\* flight, of the collection that step leaves; no other step issues a write.
C15_WriteThrough ==
  [][/\ Mutation =>
          /\ Len(pending') = Len(pending) + 1
          /\ SubSeq(pending', 1, Len(pending)) = pending
          /\ Parse(pending'[Len(pending')].data) = tasks'
     /\ ~Mutation => Len(pending') <= Len(pending)]_vars

\* C15: the writes of a toggle and of the removal that followed it are in
\* flight, in that order.
C15_Witness ==
  /\ lastOp.op = "fadeEnd"
  /\ Len(pending) >= 2
  /\ Parse(pending[Len(pending)].data) = tasks
  /\ Parse(pending[Len(pending) - 1].data) = lastOp.before
  /\ tasks # lastOp.before

\* C16: a failing write changes neither the in-memory collection nor the
\* stored value, and is not issued again: the other writes stay in flight as
\* they are.
C16_FailedWrite ==
  [][\A i \in DOMAIN pending :
       WriteFail(i) =>
         /\ tasks' = tasks
         /\ storage' = storage
         /\ pending' = RemoveAt(pending, i)]_vars

\* C16: the write of the last mutation failed: nothing is in flight, the
\* in-memory collection is the one that mutation produced and the stored one
\* is not.
C16_Witness ==
  /\ hist.failures > 0
  /\ Len(pending) = 0
  /\ lastOp.op \in {"add", "toggle", "update", "fadeEnd"}
  /\ tasks # lastOp.before
  /\ srcOf.failed = tasks
  /\ Persisted # tasks

\* C17: a task whose removal has taken effect, and whose id no later add has
\* given to a new task, is not in the collection (runs in which the load
\* assigned nothing after user activity).
C17_RemovedStaysRemoved ==
  ~hist.lateLoad => \A taskId \in hist.removed : taskId \notin TaskIds(tasks)

\* C18: once the load is done, every task of the collection has an animation
\* handle (runs in which the load assigned nothing after user activity).
C18_HandleForEveryTask ==
  (loadPc = "done" /\ ~hist.lateLoad) => TaskIds(tasks) \subseteq animations

\* C19: an edit target is the id of a task of the collection (runs in which
\* the load assigned nothing after user activity).
C19_EditTargetPresent ==
  (Truthy(editingTask) /\ ~hist.lateLoad) => editingTask \in TaskIds(tasks)

====
